---- MODULE Spec2Model ----
(***************************************************************************)
(* A model of the news aggregation and enrichment pipeline of the          *)
(* AICryptoSense dashboard: the service module (caches, rate limiter,      *)
(* provider adapters, fetchCryptoNews, analyzeSentiment, fetchMarketData,  *)
(* fetchPriceHistory) and the refresh scheduler of App.tsx.                *)
(*                                                                         *)
(* JavaScript runs one task at a time: the code between two awaits is one  *)
(* atomic action here.  Time is in milliseconds; a timer fires exactly     *)
(* when it is due (time never passes a pending timer), network responses   *)
(* arrive at any moment.                                                   *)
(***************************************************************************)
EXTENDS Integers, Sequences, FiniteSets, TLC

VARIABLES
  now,            \* Date.now(), ms
  newsCache,      \* let newsCache: { data, timestamp } | null
  ncalls,         \* the fetchCryptoNews calls in flight, one slot per caller
  nextSyn,        \* how many ids the CryptoPanic adapter has synthesized
  lastReturned,   \* history: what the call that last wrote newsCache returned
  lastSets,       \* history: the adapter call sets that call had issued
  throws,         \* history: the errors that have reached a catch block
  sentimentCache, \* let sentimentCache = new Map<string, { sentiment, timestamp }>()
  scalls,         \* the analyzeSentiment calls in flight, one slot per caller
  marketDataCache,   \* let marketDataCache: { data, timestamp } | null
  priceHistoryCache, \* let priceHistoryCache = new Map<string, { data, timestamp }>()
  requestCount,      \* let requestCount = 0
  lastRequestTime,   \* let lastRequestTime = Date.now()
  grantTimes,     \* history, kept by SpecRateLimit: when checkRateLimit returned
  windowGrants,   \* history, kept by SpecRateLimit: the returns since the window began
  mcalls,         \* the fetchMarketData and fetchPriceHistory calls in flight
  news,           \* const [news, setNews] = useState<NewsItem[]>([])
  loading,        \* const [loading, setLoading] = useState(true)
  error,          \* const [error, setError] = useState<string | null>(null); "" is null
  retryCount,     \* const [retryCount, setRetryCount] = useState(0)
  isInitialLoad,  \* const [isInitialLoad, setIsInitialLoad] = useState(true)
  mounted,        \* whether App is mounted
  deps,           \* the [retryCount, isInitialLoad] the news effect last ran with
  session,        \* the run of the news effect whose isMounted is still true
  currentBatch,   \* let currentBatch of that run
  intervalAt,     \* when setInterval(fetchNews, 60000) of that run fires next
  retryTimers,    \* the pending setTimeout callbacks that increment retryCount
  cycles          \* the fetchNews invocations in flight

newsVars == <<newsCache, ncalls, nextSyn, lastReturned, lastSets, throws>>
sentimentVars == <<sentimentCache, scalls>>
marketVars == <<marketDataCache, priceHistoryCache, requestCount, lastRequestTime, grantTimes,
               windowGrants, mcalls>>

appVars == <<news, loading, error, retryCount, isInitialLoad, mounted, deps, session,
            currentBatch, intervalAt, retryTimers, cycles>>

vars == <<now, newsVars, sentimentVars, marketVars, appVars>>

---------------------------------------------------------------------------
(* Bounds of the model *)

\* the clock stops here
MaxNow == 90000
\* ids the CryptoPanic adapter may synthesize in one run
MaxSyn == 2
\* errors that may escape a try block in one run
MaxThrows == 4
\* requestCount is followed up to this value
MaxCount == 12

\* how far the clock moves in one step when no timer is due earlier
Steps == {30000}

(* Program constants *)

NEWS_CACHE_DURATION == 60000
AGGREGATION_TIMEOUT == 10000
MaxRetries == 3
BaseDelay == 1000

---------------------------------------------------------------------------
(* Sequences *)

RECURSIVE Pow2(_)
Pow2(n) == IF n = 0 THEN 1 ELSE 2 * Pow2(n - 1)

Range(s) == {s[i] : i \in 1..Len(s)}

Ids(s) == {s[i].id : i \in 1..Len(s)}

\* how many entries of s carry id
CountId(s, id) == Cardinality({i \in 1..Len(s) : s[i].id = id})

\* how many times the item x occurs in s
Occurrences(s, x) == Cardinality({i \in 1..Len(s) : s[i] = x})

NonIncreasing(s) ==
  \A i \in 1..Len(s) : \A j \in 1..Len(s) :
    i < j => s[i].published_on >= s[j].published_on

\* x inserted into the descending list s behind every entry that is not older
InsertDesc(s, x) ==
  LET k == Cardinality({i \in 1..Len(s) : s[i].published_on >= x.published_on})
  IN  SubSeq(s, 1, k) \o <<x>> \o SubSeq(s, k + 1, Len(s))

RECURSIVE SortFrom(_, _, _)
SortFrom(acc, s, i) ==
  IF i > Len(s) THEN acc ELSE SortFrom(InsertDesc(acc, s[i]), s, i + 1)

\* Array.prototype.sort((a, b) => b.published_on - a.published_on): stable
SortByPublishedDesc(s) == SortFrom(<<>>, s, 1)

---------------------------------------------------------------------------
(* What the providers serve.  A raw item is the JSON object of a provider;
   body and description are lengths in characters, -1 for a missing body;
   a CryptoPanic id of 0 is a missing id; published_at is in ms. *)

CC1 == [id |-> 1, title |-> "Bitcoin price surges", published_on |-> 30, body |-> 250]
CC2 == [id |-> 2, title |-> "Ethereum upgrade ships", published_on |-> 10, body |-> 40]
CP1 == [id |-> 1, title |-> "Breaking: exchange hacked", published_at |-> 30500, description |-> 0]
CP3 == [id |-> 3, title |-> "Ethereum upgrade ships", published_at |-> 40000, description |-> 120]
CP0 == [id |-> 0, title |-> "Regulators meet", published_at |-> 20000, description |-> 0]

CryptoCompareBodies == {<<CC2, CC1>>}
CryptoPanicBodies == {<<CP1, CP3>>, <<CP0>>}

\* how a provider call ends: fetch rejects, a non-OK status, a body without
\* the expected array, or a body with it
Failures == {[kind |-> "network", body |-> <<>>], [kind |-> "status", body |-> <<>>],
             [kind |-> "malformed", body |-> <<>>]}
CryptoCompareOutcomes == Failures \cup {[kind |-> "ok", body |-> b] : b \in CryptoCompareBodies}
CryptoPanicOutcomes == Failures \cup {[kind |-> "ok", body |-> b] : b \in CryptoPanicBodies}

\* ids made by String(Date.now() + Math.random()) lie apart from provider ids
SynBase == 100

NoSentiment == "none"
NoImpact == "none"
NoReliability == -1

\* the entries of body before position i that have no id
MissingBefore(body, i) == Cardinality({j \in 1..(i - 1) : body[j].id = 0})
MissingIds(body) == MissingBefore(body, Len(body) + 1)

\* fetchCryptoCompareNews: every failure is caught and gives []
FetchCryptoCompareNews(outcome) ==
  IF outcome.kind # "ok" THEN <<>>
  ELSE [i \in 1..Len(outcome.body) |->
          [id |-> outcome.body[i].id,
           title |-> outcome.body[i].title,
           source |-> "CryptoCompare",
           published_on |-> outcome.body[i].published_on,
           body |-> outcome.body[i].body,
           sentiment |-> NoSentiment, reliability |-> NoReliability,
           impact |-> NoImpact]]

\* fetchCryptoPanicNews: every failure is caught and gives []; syn ids were
\* synthesized before this call
FetchCryptoPanicNews(outcome, syn) ==
  IF outcome.kind # "ok" THEN <<>>
  ELSE [i \in 1..Len(outcome.body) |->
          [id |-> IF outcome.body[i].id # 0 THEN outcome.body[i].id
                  ELSE SynBase + syn + MissingBefore(outcome.body, i),
           title |-> outcome.body[i].title,
           source |-> "CryptoPanic",
           published_on |-> outcome.body[i].published_at \div 1000,
           body |-> IF outcome.body[i].description > 0
                    THEN outcome.body[i].description ELSE 0,
           sentiment |-> NoSentiment, reliability |-> NoReliability,
           impact |-> NoImpact]]

\* mutant: the second provider's items are left out of the merge
MergeNews_FirstOnly(cryptoCompareNews, cryptoPanicNews) ==
  SortByPublishedDesc(cryptoCompareNews)

\* [...cryptoCompareNews, ...cryptoPanicNews].sort(...)
MergeNews(cryptoCompareNews, cryptoPanicNews) ==
  SortByPublishedDesc(cryptoCompareNews \o cryptoPanicNews)

---------------------------------------------------------------------------
(* fetchCryptoNews *)

Callers == {1, 2}

NoCache == [set |-> FALSE, data |-> <<>>, timestamp |-> 0]
Pending == [done |-> FALSE, failed |-> FALSE, items |-> <<>>]

IdleCall == [pc |-> "idle", retryCount |-> 0, cc |-> Pending, cp |-> Pending,
             timeoutAt |-> -1, aborted |-> FALSE, wakeAt |-> -1, delayMs |-> 0,
             result |-> <<>>, error |-> "", hit |-> FALSE, sets |-> 0,
             failedAt |-> -1, delays |-> <<>>, gaveUp |-> FALSE, first |-> ""]

IdleNews ==
  /\ newsCache = NoCache
  /\ ncalls = [c \in Callers |-> IdleCall]
  /\ nextSyn = 0
  /\ lastReturned = <<>>
  /\ lastSets = 0
  /\ throws = 0

\* mutant: the comparison of the freshness test is turned around
NewsCacheFresh_Flipped == newsCache.set /\ now - newsCache.timestamp > NEWS_CACHE_DURATION

\* newsCache && Date.now() - newsCache.timestamp < NEWS_CACHE_DURATION
NewsCacheFresh == newsCache.set /\ now - newsCache.timestamp < NEWS_CACHE_DURATION

\* the timers that are pending, as the times they are due
NewsTimers ==
  {ncalls[c].timeoutAt : c \in {d \in Callers : ncalls[d].pc = "await" /\ ncalls[d].timeoutAt >= 0}}
  \cup {ncalls[c].wakeAt : c \in {d \in Callers : ncalls[d].pc = "delay"}}

\* the body of fetchCryptoNews(retryCount) up to its first await, for the call
\* record r and the argument attempt: a fresh cache entry is returned,
\* otherwise the timer is set and both adapters are invoked
EnterFetchCryptoNews(r, attempt) ==
  IF NewsCacheFresh
  THEN [r EXCEPT !.pc = "resolved", !.retryCount = attempt,
                 !.result = newsCache.data, !.hit = TRUE,
                 !.timeoutAt = -1, !.wakeAt = -1, !.first = ""]
  ELSE [r EXCEPT !.pc = "await", !.retryCount = attempt,
                 !.cc = Pending, !.cp = Pending,
                 !.timeoutAt = now + AGGREGATION_TIMEOUT, !.aborted = FALSE,
                 !.wakeAt = -1, !.hit = FALSE,
                 !.sets = r.sets + 1, !.first = ""]

\* a caller calls fetchCryptoNews()
StartNews(c) ==
  /\ ncalls[c].pc \in {"idle", "resolved", "rejected"}
  /\ ncalls' = [ncalls EXCEPT ![c] = EnterFetchCryptoNews(IdleCall, 0)]
  /\ UNCHANGED <<now, newsCache, nextSyn, lastReturned, lastSets, throws, sentimentVars, marketVars, appVars>>

\* the call record once both adapters have settled: the lines after
\* await Promise.all
\* mutant: the lists are spread in the order in which the adapters settled
CompleteAggregation_ByArrival(r) ==
  [r EXCEPT !.pc = "resolved", !.timeoutAt = -1,
            !.result = IF r.first = "cp" THEN MergeNews(r.cp.items, r.cc.items)
                       ELSE MergeNews(r.cc.items, r.cp.items)]

\* const [cryptoCompareNews, cryptoPanicNews] = await Promise.all([...]):
\* the results are taken by position, then merged, sorted and returned
CompleteAggregation(r) ==
  [r EXCEPT !.pc = "resolved", !.timeoutAt = -1,
            !.result = MergeNews(r.cc.items, r.cp.items)]

\* the cache entry written by a completed aggregation
StoreNews(r) == [set |-> TRUE, data |-> MergeNews(r.cc.items, r.cp.items), timestamp |-> now]

\* an adapter's promise settles; with the second one Promise.all resolves and
\* the call merges, sorts, stores and returns in the same task
Settled(c, r) ==
  IF r.cc.done /\ r.cp.done
  THEN /\ ncalls' = [ncalls EXCEPT ![c] = CompleteAggregation(r)]
       /\ newsCache' = StoreNews(r)
       /\ lastReturned' = CompleteAggregation(r).result
       /\ lastSets' = r.sets
  ELSE /\ ncalls' = [ncalls EXCEPT ![c] = r]
       /\ UNCHANGED <<newsCache, lastReturned, lastSets>>

SettleCryptoCompare(c) ==
  /\ ncalls[c].pc = "await" /\ ~ncalls[c].cc.done
  /\ \E o \in CryptoCompareOutcomes :
       Settled(c, [ncalls[c] EXCEPT !.cc = [done |-> TRUE, failed |-> o.kind # "ok",
                                            items |-> FetchCryptoCompareNews(o)],
                                   !.first = IF ncalls[c].cp.done THEN @ ELSE "cc"])
  /\ UNCHANGED <<now, nextSyn, throws, sentimentVars, marketVars, appVars>>

SettleCryptoPanic(c) ==
  /\ ncalls[c].pc = "await" /\ ~ncalls[c].cp.done
  /\ \E o \in CryptoPanicOutcomes :
       /\ nextSyn + MissingIds(o.body) <= MaxSyn
       /\ nextSyn' = nextSyn + MissingIds(o.body)
       /\ Settled(c, [ncalls[c] EXCEPT !.cp = [done |-> TRUE, failed |-> o.kind # "ok",
                                               items |-> FetchCryptoPanicNews(o, nextSyn)],
                                      !.first = IF ncalls[c].cc.done THEN @ ELSE "cp"])
  /\ UNCHANGED <<now, throws, sentimentVars, marketVars, appVars>>

\* setTimeout(() => controller.abort(), 10000) fires: the controller is
\* aborted; its signal was handed to no fetch, so nothing else changes
AbortTimeout(c) ==
  /\ ncalls[c].pc = "await" /\ ncalls[c].timeoutAt = now
  /\ ncalls' = [ncalls EXCEPT ![c].aborted = TRUE, ![c].timeoutAt = -1]
  /\ UNCHANGED <<now, newsCache, nextSyn, lastReturned, lastSets, throws, sentimentVars, marketVars, appVars>>

\* the clock moves by one of steps or to the next timer, never past a pending
\* timer
Tick(timers, steps, max) ==
  /\ \E d \in steps \cup {t - now : t \in {u \in timers : u > now}} :
       /\ now + d <= max
       /\ \A t \in timers : t >= now + d
       /\ now' = now + d
  /\ UNCHANGED <<newsVars, sentimentVars, marketVars, appVars>>

TickNews == Tick(NewsTimers, Steps, MaxNow)

\* newsCache?.data || []
CachedNewsOrEmpty == IF newsCache.set THEN newsCache.data ELSE <<>>

\* mutant: the backoff grows linearly and one more retry is made
CatchNews_Linear(r, name) ==
  IF name = "AbortError"
  THEN [r EXCEPT !.pc = "rejected", !.timeoutAt = -1,
                 !.error = "Request timeout - please try again"]
  ELSE IF r.retryCount <= MaxRetries
  THEN [r EXCEPT !.pc = "delay", !.timeoutAt = -1,
                 !.delayMs = BaseDelay * (r.retryCount + 1),
                 !.wakeAt = now + BaseDelay * (r.retryCount + 1),
                 !.failedAt = now]
  ELSE [r EXCEPT !.pc = "resolved", !.timeoutAt = -1,
                 !.result = CachedNewsOrEmpty, !.gaveUp = TRUE]

\* the catch block of fetchCryptoNews for an error named name, after the
\* finally block has cleared the timer
CatchNews(r, name) ==
  IF name = "AbortError"
  THEN [r EXCEPT !.pc = "rejected", !.timeoutAt = -1,
                 !.error = "Request timeout - please try again"]
  ELSE IF r.retryCount < MaxRetries
  THEN [r EXCEPT !.pc = "delay", !.timeoutAt = -1,
                 !.delayMs = BaseDelay * Pow2(r.retryCount),
                 !.wakeAt = now + BaseDelay * Pow2(r.retryCount),
                 !.failedAt = now]
  ELSE [r EXCEPT !.pc = "resolved", !.timeoutAt = -1,
                 !.result = CachedNewsOrEmpty, !.gaveUp = TRUE]

\* an error escapes the try block of fetchCryptoNews while the call awaits
\* its adapters.  The adapters of this file swallow every error of theirs, so
\* this step belongs to SpecNewsThrow only.
TryBodyThrows(c) ==
  /\ ncalls[c].pc = "await"
  /\ throws < MaxThrows
  /\ throws' = throws + 1
  /\ \E name \in {"AbortError", "Error"} :
       ncalls' = [ncalls EXCEPT ![c] = CatchNews(ncalls[c], name)]
  /\ UNCHANGED <<now, newsCache, nextSyn, lastReturned, lastSets, sentimentVars, marketVars, appVars>>

\* await delay(delayMs) is over: return fetchCryptoNews(retryCount + 1)
RetryNews(c) ==
  /\ ncalls[c].pc = "delay" /\ ncalls[c].wakeAt = now
  /\ ncalls' = [ncalls EXCEPT ![c] =
       EnterFetchCryptoNews(
         [ncalls[c] EXCEPT !.delays = Append(ncalls[c].delays, now - ncalls[c].failedAt)],
         ncalls[c].retryCount + 1)]
  /\ UNCHANGED <<now, newsCache, nextSyn, lastReturned, lastSets, throws, sentimentVars, marketVars, appVars>>

---------------------------------------------------------------------------
(* analyzeSentiment *)

SENTIMENT_CACHE_DURATION == 300000

\* the clock of the sentiment runs stops here
MaxNowSentiment == 450000
StepsSentiment == {150000}

\* the texts the calls of the sentiment runs classify
Texts == {"Bitcoin crashes", "Ethereum upgrade ships"}

\* the titles of the news items the providers serve to the App
AppTitles == {"Bitcoin price surges", "Ethereum upgrade ships", "Regulators meet",
              "Breaking: exchange hacked"}

\* the keys sentimentCache may hold
AllTexts == Texts \cup AppTitles

\* data.choices?.[0]?.message?.content of a 200 response; "" stands for a
\* body without it as well
Contents == {"POSITIVE", "NEUTRAL", " negative\n", "Bullish", ""}

\* content.trim().toUpperCase()
TrimUpper(content) ==
  CASE content = " negative\n" -> "NEGATIVE"
    [] content = "Bullish" -> "BULLISH"
    [] OTHER -> content

\* how the classification request ends: fetch rejects, a non-OK status, a
\* body that is no JSON, or a 200 response with a content
SentimentOutcomes ==
  {[kind |-> k, content |-> ""] : k \in {"network", "status", "malformed"}}
  \cup {[kind |-> "ok", content |-> x] : x \in Contents}

SCallers == {1, 2}

NoEntry == [set |-> FALSE, sentiment |-> "", timestamp |-> 0]
IdleSentimentCall == [pc |-> "idle", text |-> "", content |-> "", path |-> ""]

IdleSentiment ==
  /\ sentimentCache = [t \in AllTexts |-> NoEntry]
  /\ scalls = [c \in SCallers |-> IdleSentimentCall]

\* cachedSentiment && Date.now() - cachedSentiment.timestamp < SENTIMENT_CACHE_DURATION
SentimentFresh(text) ==
  sentimentCache[text].set /\ now - sentimentCache[text].timestamp < SENTIMENT_CACHE_DURATION

\* analyzeSentiment(text) up to its first await
StartSentiment(c) ==
  /\ scalls[c].pc \in {"idle", "resolved", "rejected"}
  /\ \E text \in Texts :
       scalls' = [scalls EXCEPT ![c] =
         IF SentimentFresh(text)
         THEN [pc |-> "resolved", text |-> text,
               content |-> sentimentCache[text].sentiment, path |-> "hit"]
         ELSE [pc |-> "await", text |-> text, content |-> "", path |-> ""]]
  /\ UNCHANGED <<now, newsVars, sentimentCache, marketVars, appVars>>

\* data.choices?.[0]?.message?.content?.trim().toUpperCase() || 'NEUTRAL'
ParseSentiment(content) ==
  IF TrimUpper(content) = "" THEN "NEUTRAL" ELSE TrimUpper(content)

\* ['POSITIVE', 'NEGATIVE'].includes(sentiment) ? sentiment : 'NEUTRAL'
Coerce(sentiment) ==
  IF sentiment \in {"POSITIVE", "NEGATIVE"} THEN sentiment ELSE "NEUTRAL"

\* the entry sentimentCache.set(text, ...) writes after a 200 response
SentimentEntry(content) ==
  [set |-> TRUE, sentiment |-> ParseSentiment(content), timestamp |-> now]

\* mutant: the catch block throws the error on
CatchSentiment_Rethrow(r, kind) ==
  [r EXCEPT !.pc = "rejected", !.path = "fallback"]

\* cachedSentiment?.sentiment || 'NEUTRAL'
CachedSentimentOrNeutral(text) ==
  IF sentimentCache[text].set THEN sentimentCache[text].sentiment ELSE "NEUTRAL"

\* mutant: the catch block uses the cache entry only while it is fresh
CatchSentiment_FreshOnly(r, kind) ==
  [r EXCEPT !.pc = "resolved", !.path = "fallback",
            !.content = IF SentimentFresh(r.text)
                        THEN sentimentCache[r.text].sentiment ELSE "NEUTRAL"]

\* the catch block of analyzeSentiment
CatchSentiment(r, kind) ==
  [r EXCEPT !.pc = "resolved", !.path = "fallback",
            !.content = CachedSentimentOrNeutral(r.text)]

\* the request of a call settles
SettleSentiment(c) ==
  /\ scalls[c].pc = "await"
  /\ \E o \in SentimentOutcomes :
       IF o.kind = "ok"
       THEN /\ sentimentCache' = [sentimentCache EXCEPT ![scalls[c].text] = SentimentEntry(o.content)]
            /\ scalls' = [scalls EXCEPT ![c] =
                 [scalls[c] EXCEPT !.pc = "resolved", !.path = "fresh",
                                   !.content = Coerce(ParseSentiment(o.content))]]
       ELSE /\ scalls' = [scalls EXCEPT ![c] = CatchSentiment(scalls[c], o.kind)]
            /\ UNCHANGED sentimentCache
  /\ UNCHANGED <<now, newsVars, marketVars, appVars>>

TickSentiment == Tick({}, StepsSentiment, MaxNowSentiment)

---------------------------------------------------------------------------
(* checkRateLimit, fetchMarketData, fetchPriceHistory *)

MARKET_DATA_CACHE_DURATION == 30000
MARKET_TIMEOUT == 5000
MaxRequests == 10
TimeWindow == 60000

\* the clock of the market runs stops here
MaxNowMarket == 65000
StepsMarket == {30000}
StepsLimit == {20000}
MaxNowLimit == 80000

Symbols == {"bitcoin", "ethereum"}
Ranges == {"24h", "7d"}

\* `${symbol}-${timeRange}`
CacheKey(symbol, timeRange) == <<symbol, timeRange>>
Keys == {CacheKey("bitcoin", r) : r \in Ranges}

MCallers == {1, 2}

\* what a call returns: where the values come from ("live": the upstream
\* response, "mock": mockData, "fallback": the values made in the catch
\* block), and the symbol and range of the call that obtained them
NoData == [origin |-> "", symbol |-> "", range |-> ""]
NoMarketEntry == [set |-> FALSE, data |-> NoData, timestamp |-> 0]

IdleMarketCall == [pc |-> "idle", fn |-> "", symbol |-> "", range |-> "",
                   cached |-> NoMarketEntry, mock |-> NoData,
                   timeoutAt |-> -1, wakeAt |-> -1, waited |-> -1,
                   result |-> NoData, path |-> ""]

IdleMarket ==
  /\ marketDataCache = NoMarketEntry
  /\ priceHistoryCache = [k \in Keys |-> NoMarketEntry]
  /\ requestCount = 0
  /\ lastRequestTime = 0
  /\ grantTimes = <<>>
  /\ windowGrants = 0
  /\ mcalls = [c \in MCallers |-> IdleMarketCall]

\* how the CoinGecko request ends: fetch rejects, the 5 s timer aborts it,
\* HTTP 429, another non-OK status, a body that is no JSON, a JSON body without
\* the expected field, or a body with it
MarketOutcomes == {"network", "429", "status", "malformed", "missing", "ok"}

MarketTimers ==
  {mcalls[c].timeoutAt : c \in {d \in MCallers : mcalls[d].pc = "fetch"}}
  \cup {mcalls[c].wakeAt : c \in {d \in MCallers : mcalls[d].pc = "ratewait"}}

\* requestCount after the window test of checkRateLimit
CountAfterWindowTest == IF now - lastRequestTime > TimeWindow THEN 0 ELSE requestCount
\* lastRequestTime after the window test of checkRateLimit
WindowStartAfterTest == IF now - lastRequestTime > TimeWindow THEN now ELSE lastRequestTime
\* mutant: the caller is made to wait a whole window
WaitTime_WholeWindow == TimeWindow

\* RATE_LIMIT.timeWindow - (now - lastRequestTime)
WaitTime == TimeWindow - (now - WindowStartAfterTest)
\* whether checkRateLimit suspends its caller
MustWait == CountAfterWindowTest >= MaxRequests /\ WaitTime > 0

\* await checkRateLimit() for the call record r, which then issues its request
\* under a 5 s abort timer, or is suspended in delay(waitTime)
CheckRateLimit(c, r) ==
  IF MustWait
  THEN /\ mcalls' = [mcalls EXCEPT ![c] = [r EXCEPT !.pc = "ratewait", !.wakeAt = now + WaitTime,
                                                    !.waited = WaitTime]]
       /\ requestCount' = CountAfterWindowTest
       /\ lastRequestTime' = WindowStartAfterTest
  ELSE /\ CountAfterWindowTest < MaxCount
       /\ mcalls' = [mcalls EXCEPT ![c] = [r EXCEPT !.pc = "fetch", !.timeoutAt = now + MARKET_TIMEOUT]]
       /\ requestCount' = CountAfterWindowTest + 1
       /\ lastRequestTime' = WindowStartAfterTest

\* delay(waitTime) is over: requestCount = 0; lastRequestTime = Date.now();
\* requestCount++, and the caller issues its request
DelayOver(c) ==
  /\ mcalls[c].pc = "ratewait" /\ mcalls[c].wakeAt = now
  /\ requestCount' = 1
  /\ lastRequestTime' = now
  /\ mcalls' = [mcalls EXCEPT ![c].pc = "fetch", ![c].wakeAt = -1,
                              ![c].timeoutAt = now + MARKET_TIMEOUT]

RateLimitWake(c) ==
  /\ DelayOver(c)
  /\ UNCHANGED <<now, newsVars, sentimentVars, marketDataCache, priceHistoryCache,
                 grantTimes, windowGrants, appVars>>

\* marketDataCache && Date.now() - marketDataCache.timestamp < MARKET_DATA_CACHE_DURATION
MarketFresh == marketDataCache.set /\ now - marketDataCache.timestamp < MARKET_DATA_CACHE_DURATION

\* fetchMarketData(symbol) up to its first await
StartMarket(c) ==
  /\ mcalls[c].pc \in {"idle", "resolved", "rejected"}
  /\ \E symbol \in Symbols :
       IF MarketFresh
       THEN /\ mcalls' = [mcalls EXCEPT ![c] =
                 [IdleMarketCall EXCEPT !.pc = "resolved", !.fn = "market", !.symbol = symbol,
                                        !.result = marketDataCache.data, !.path = "hit"]]
            /\ UNCHANGED <<requestCount, lastRequestTime>>
       ELSE CheckRateLimit(c,
              [IdleMarketCall EXCEPT !.fn = "market", !.symbol = symbol,
                 !.mock = [origin |-> "mock", symbol |-> symbol, range |-> ""]])
  /\ UNCHANGED <<now, newsVars, sentimentVars, marketDataCache, priceHistoryCache,
                 grantTimes, windowGrants, appVars>>

\* the entry written with timestamp Date.now()
EntryNow(data) == [set |-> TRUE, data |-> data, timestamp |-> now]

\* the call record r returning data by the path named path
Return(r, data, path) ==
  [r EXCEPT !.pc = "resolved", !.result = data, !.path = path,
            !.timeoutAt = -1, !.waited = -1, !.mock = NoData]

\* mutant: the catch block always generates fallback values
CatchMarket_AlwaysFallback(c, outcome) ==
  LET fallbackData == [origin |-> "fallback", symbol |-> mcalls[c].symbol, range |-> ""]
  IN  /\ mcalls' = [mcalls EXCEPT ![c] = Return(mcalls[c], fallbackData, "catch-fallback")]
      /\ marketDataCache' = EntryNow(fallbackData)

\* the outer catch block of fetchMarketData
CatchMarket(c, outcome) ==
  IF marketDataCache.set
  THEN /\ mcalls' = [mcalls EXCEPT ![c] = Return(mcalls[c], marketDataCache.data, "catch-stale")]
       /\ UNCHANGED marketDataCache
  ELSE LET fallbackData == [origin |-> "fallback", symbol |-> mcalls[c].symbol, range |-> ""]
       IN  /\ mcalls' = [mcalls EXCEPT ![c] = Return(mcalls[c], fallbackData, "catch-fallback")]
           /\ marketDataCache' = EntryNow(fallbackData)

\* the lines of fetchMarketData after await fetch(...), by how the request ended
AfterMarketFetch(c, outcome) ==
  CASE outcome \in {"429", "missing"} ->
         /\ marketDataCache' = EntryNow(mcalls[c].mock)
         /\ mcalls' = [mcalls EXCEPT ![c] =
              Return(mcalls[c], mcalls[c].mock,
                     IF outcome = "429" THEN "mock-429" ELSE "mock-format")]
    [] outcome = "ok" ->
         LET marketData == [origin |-> "live", symbol |-> mcalls[c].symbol, range |-> ""]
         IN  /\ marketDataCache' = EntryNow(marketData)
             /\ mcalls' = [mcalls EXCEPT ![c] = Return(mcalls[c], marketData, "live")]
    [] OTHER -> CatchMarket(c, outcome)

SettleMarket(c) ==
  /\ mcalls[c].pc = "fetch" /\ mcalls[c].fn = "market"
  /\ \E outcome \in MarketOutcomes : AfterMarketFetch(c, outcome)
  /\ UNCHANGED <<now, newsVars, sentimentVars, priceHistoryCache, requestCount, lastRequestTime,
                 grantTimes, windowGrants, appVars>>

\* the 5 s timer fires: controller.abort() rejects the fetch with an AbortError
TimeoutMarket(c) ==
  /\ mcalls[c].pc = "fetch" /\ mcalls[c].fn = "market" /\ mcalls[c].timeoutAt = now
  /\ CatchMarket(c, "abort")
  /\ UNCHANGED <<now, newsVars, sentimentVars, priceHistoryCache, requestCount, lastRequestTime,
                 grantTimes, windowGrants, appVars>>

\* cached && Date.now() - cached.timestamp < MARKET_DATA_CACHE_DURATION
HistoryFresh(key) ==
  priceHistoryCache[key].set /\ now - priceHistoryCache[key].timestamp < MARKET_DATA_CACHE_DURATION

\* fetchPriceHistory(symbol, timeRange) up to its first await
StartHistory(c) ==
  /\ mcalls[c].pc \in {"idle", "resolved", "rejected"}
  /\ \E key \in Keys :
       IF HistoryFresh(key)
       THEN /\ mcalls' = [mcalls EXCEPT ![c] =
                 [IdleMarketCall EXCEPT !.pc = "resolved", !.fn = "history",
                                        !.symbol = key[1], !.range = key[2],
                                        !.cached = priceHistoryCache[key],
                                        !.result = priceHistoryCache[key].data, !.path = "hit"]]
            /\ UNCHANGED <<requestCount, lastRequestTime>>
       ELSE CheckRateLimit(c,
              [IdleMarketCall EXCEPT !.fn = "history", !.symbol = key[1], !.range = key[2],
                 !.cached = priceHistoryCache[key],
                 !.mock = [origin |-> "mock", symbol |-> key[1], range |-> key[2]]])
  /\ UNCHANGED <<now, newsVars, sentimentVars, marketDataCache, priceHistoryCache,
                 grantTimes, windowGrants, appVars>>

\* cached?.data || mockData, stored under the key with timestamp Date.now()
\* and returned
HistoryFallback(c, outcome) ==
  LET r == mcalls[c]
      fallbackData == IF r.cached.set THEN r.cached.data ELSE r.mock
  IN  /\ priceHistoryCache' = [priceHistoryCache EXCEPT ![CacheKey(r.symbol, r.range)] = EntryNow(fallbackData)]
      /\ mcalls' = [mcalls EXCEPT ![c] =
           Return(r, fallbackData, "refresh")]

\* the outer catch block of fetchPriceHistory
CatchHistory(c, outcome) ==
  LET r == mcalls[c]
  IN  IF r.cached.set
      THEN /\ mcalls' = [mcalls EXCEPT ![c] = Return(r, r.cached.data, "catch-stale")]
           /\ UNCHANGED priceHistoryCache
      ELSE LET mockData == [origin |-> "mock", symbol |-> r.symbol, range |-> r.range]
           IN  /\ mcalls' = [mcalls EXCEPT ![c] = Return(r, mockData, "catch-mock")]
               /\ priceHistoryCache' = [priceHistoryCache EXCEPT ![CacheKey(r.symbol, r.range)] = EntryNow(mockData)]

\* the lines of fetchPriceHistory after await fetch(...), by how the request ended
AfterHistoryFetch(c, outcome) ==
  CASE outcome \in {"429", "missing", "abort"} -> HistoryFallback(c, outcome)
    [] outcome = "ok" ->
         LET r == mcalls[c]
             historyData == [origin |-> "live", symbol |-> r.symbol, range |-> r.range]
         IN  /\ priceHistoryCache' = [priceHistoryCache EXCEPT ![CacheKey(r.symbol, r.range)] = EntryNow(historyData)]
             /\ mcalls' = [mcalls EXCEPT ![c] = Return(r, historyData, "live")]
    [] OTHER -> CatchHistory(c, outcome)

SettleHistory(c) ==
  /\ mcalls[c].pc = "fetch" /\ mcalls[c].fn = "history"
  /\ \E outcome \in MarketOutcomes : AfterHistoryFetch(c, outcome)
  /\ UNCHANGED <<now, newsVars, sentimentVars, marketDataCache, requestCount, lastRequestTime,
                 grantTimes, windowGrants, appVars>>

\* the 5 s timer fires: the inner catch block sees the AbortError
TimeoutHistory(c) ==
  /\ mcalls[c].pc = "fetch" /\ mcalls[c].fn = "history" /\ mcalls[c].timeoutAt = now
  /\ AfterHistoryFetch(c, "abort")
  /\ UNCHANGED <<now, newsVars, sentimentVars, marketDataCache, requestCount, lastRequestTime,
                 grantTimes, windowGrants, appVars>>

TickMarket == Tick(MarketTimers, StepsMarket, MaxNowMarket)

---------------------------------------------------------------------------
(* checkRateLimit on its own: the callers are the two market functions after
   a cache miss, of which only the call of checkRateLimit and the end of the
   request are kept; the times at which checkRateLimit returned are recorded *)

\* checkRateLimit returns to the caller in slot c in this step
Returns(c) == mcalls[c].pc # "fetch" /\ mcalls'[c].pc = "fetch"

\* the history of the returns that lie less than timeWindow back, and the
\* number of returns since the window began, a window beginning in the step
\* that moves lastRequestTime
ObserveGrants ==
  /\ grantTimes' = IF \E c \in MCallers : Returns(c)
                   THEN Append(SelectSeq(grantTimes, LAMBDA t : now - t < TimeWindow), now)
                   ELSE grantTimes
  /\ windowGrants' = (IF lastRequestTime' # lastRequestTime THEN 0 ELSE windowGrants)
                     + (IF \E c \in MCallers : Returns(c) THEN 1 ELSE 0)

CallCheckRateLimit(c) ==
  /\ mcalls[c].pc = "idle"
  /\ CheckRateLimit(c, [IdleMarketCall EXCEPT !.fn = "checkRateLimit"])
  /\ ObserveGrants
  /\ UNCHANGED <<now, newsVars, sentimentVars, marketDataCache, priceHistoryCache, appVars>>

DelayOverObserved(c) ==
  /\ DelayOver(c)
  /\ ObserveGrants
  /\ UNCHANGED <<now, newsVars, sentimentVars, marketDataCache, priceHistoryCache, appVars>>

\* the request issued after checkRateLimit has settled or was aborted
RequestEnds(c) ==
  /\ mcalls[c].pc = "fetch"
  /\ mcalls' = [mcalls EXCEPT ![c] = IdleMarketCall]
  /\ UNCHANGED <<now, newsVars, sentimentVars, marketDataCache, priceHistoryCache,
                 requestCount, lastRequestTime, grantTimes, windowGrants, appVars>>

\* the clock moves in steps of 20 s, which no request outlasts: the abort
\* timer ends a request after 5 s
TickLimit ==
  /\ \A c \in MCallers : mcalls[c].pc # "fetch"
  /\ Tick(MarketTimers, StepsLimit, MaxNowLimit)

---------------------------------------------------------------------------
(* App.tsx: the feed the news effect keeps *)

\* const chunkSize = 5
CHUNK_SIZE == 5
\* await new Promise(resolve => setTimeout(resolve, 100))
CHUNK_PAUSE == 100
\* setInterval(fetchNews, 60000)
REFRESH_INTERVAL == 60000
\* if (retryCount < 3)
MaxAppRetries == 3

\* the clock of the App runs stops here
MaxNowApp == 61000
\* the fetchNews invocations followed at one time
MaxInFlight == 2
MaxNowRetry == 130000

Min(a, b) == IF a < b THEN a ELSE b

\* six items of each provider; the ids 5 and 6 are served by both, one
\* CryptoCompare item has no body, one CryptoPanic item has no id
AppCryptoCompareBody ==
  <<[id |-> 2, title |-> "Ethereum upgrade ships", published_on |-> 110, body |-> 40],
    [id |-> 1, title |-> "Bitcoin price surges", published_on |-> 120, body |-> 250],
    [id |-> 3, title |-> "Regulators meet", published_on |-> 100, body |-> -1],
    [id |-> 4, title |-> "Breaking: exchange hacked", published_on |-> 90, body |-> 40],
    [id |-> 5, title |-> "Bitcoin price surges", published_on |-> 80, body |-> 40],
    [id |-> 6, title |-> "Regulators meet", published_on |-> 50, body |-> 300]>>
AppCryptoPanicBody ==
  <<[id |-> 5, title |-> "Bitcoin price surges", published_at |-> 85500, description |-> 0],
    [id |-> 6, title |-> "Regulators meet", published_at |-> 75000, description |-> 120],
    [id |-> 7, title |-> "Breaking: exchange hacked", published_at |-> 115000, description |-> 0],
    [id |-> 8, title |-> "Ethereum upgrade ships", published_at |-> 95000, description |-> 0],
    [id |-> 9, title |-> "Regulators meet", published_at |-> 60000, description |-> 0],
    [id |-> 0, title |-> "Ethereum upgrade ships", published_at |-> 105000, description |-> 0]>>

\* how the two provider calls of an aggregation made for the App end
AppCryptoCompareOutcomes ==
  {[kind |-> "network", body |-> <<>>], [kind |-> "ok", body |-> AppCryptoCompareBody]}
AppCryptoPanicOutcomes ==
  {[kind |-> "network", body |-> <<>>], [kind |-> "ok", body |-> AppCryptoPanicBody]}

\* what the classifier answers for a title when it answers
Verdict(title) ==
  CASE title = "Bitcoin price surges" -> "POSITIVE"
    [] title = "Breaking: exchange hacked" -> " negative\n"
    [] title = "Ethereum upgrade ships" -> "Bullish"
    [] OTHER -> "NEUTRAL"

\* the values of Math.random() in one task, in hundredths: the draw of the
\* reliability and the two draws of the fallback impact
Draws == {<<0, 0, 0>>, <<60, 60, 60>>, <<99, 99, 99>>}

\* the classifier and the random draws the items of one chunk meet
Envs == {[classifier |-> "answers", draws |-> <<0, 0, 0>>],
         [classifier |-> "answers", draws |-> <<99, 99, 99>>],
         [classifier |-> "unreachable", draws |-> <<60, 60, 60>>]}

\* /urgent|breaking|alert|critical|major/i.test(item.title)
HasUrgentKeywords(title) == title \in {"Breaking: exchange hacked"}
\* /price|market|crash|surge|soar|plunge/i.test(item.title)
HasPriceKeywords(title) == title \in {"Bitcoin price surges", "Bitcoin crashes"}

\* the reliability of the try branch
Reliability(item, draws) ==
  LET baseReliability == (draws[1] * 20) \div 100 + 75
      hasDetailedContent == item.body > 200
      isVerifiedSource == item.source = "CryptoCompare"
  IN  Min(baseReliability + (IF hasDetailedContent THEN 5 ELSE 0)
                          + (IF isVerifiedSource THEN 5 ELSE 0), 100)

\* mutant: a market keyword counts as High whatever the sentiment
Impact_MarketAlwaysHigh(item, sentiment) ==
  IF HasUrgentKeywords(item.title) \/ HasPriceKeywords(item.title) THEN "High"
  ELSE IF sentiment # "NEUTRAL" THEN "Medium"
  ELSE "Low"

\* the impact of the try branch
Impact(item, sentiment) ==
  LET sentimentStrength == IF sentiment = "NEUTRAL" THEN 0 ELSE 1
  IN  IF HasUrgentKeywords(item.title) \/ (HasPriceKeywords(item.title) /\ sentimentStrength > 0)
      THEN "High"
      ELSE IF HasPriceKeywords(item.title) \/ sentimentStrength > 0
      THEN "Medium"
      ELSE "Low"

\* mutant: the catch branch returns the item as it came
EnrichFallback_Bare(item, draws) == item

\* the catch branch of the chunk mapper
EnrichFallback(item, draws) ==
  [item EXCEPT !.sentiment = "NEUTRAL",
               !.reliability = (draws[1] * 15) \div 100 + 70,
               !.impact = IF draws[2] > 70 THEN "High"
                          ELSE IF draws[3] > 50 THEN "Medium" ELSE "Low"]

\* the chunk mapper for one item, once analyzeSentiment(item.title) has
\* resolved with sentiment: item.body.length throws for an item without body
EnrichItem(item, sentiment, draws) ==
  IF item.body = -1
  THEN EnrichFallback(item, draws)
  ELSE [item EXCEPT !.sentiment = sentiment,
                    !.reliability = Reliability(item, draws),
                    !.impact = Impact(item, sentiment)]

\* mutant: every item of the chunk is pushed
Upsert_Push(uniqueNews, item) == Append(uniqueNews, item)

\* the body of processedChunk.forEach: findIndex by id, push or replace
Upsert(uniqueNews, item) ==
  IF \E k \in 1..Len(uniqueNews) : uniqueNews[k].id = item.id
  THEN LET index == CHOOSE k \in 1..Len(uniqueNews) :
                      /\ uniqueNews[k].id = item.id
                      /\ \A j \in 1..(k - 1) : uniqueNews[j].id # item.id
       IN  [uniqueNews EXCEPT ![index] = item]
  ELSE Append(uniqueNews, item)

RECURSIVE UpsertFrom(_, _, _)
UpsertFrom(uniqueNews, processedChunk, k) ==
  IF k > Len(processedChunk) THEN uniqueNews
  ELSE UpsertFrom(Upsert(uniqueNews, processedChunk[k]), processedChunk, k + 1)

\* mutant: the list is returned as the loop left it
Reconcile_NoSort(prev, processedChunk) == UpsertFrom(prev, processedChunk, 1)

\* the updater handed to setNews
Reconcile(prev, processedChunk) ==
  SortByPublishedDesc(UpsertFrom(prev, processedChunk, 1))

---------------------------------------------------------------------------
(* App.tsx: the news effect and fetchNews *)

AppSlots == 1..MaxInFlight

\* one invocation of fetchNews: where it is suspended, the effect run and the
\* batchNumber of its closure, response.Data, the loop index i, the sentiment
\* of each item of the chunk ("" while analyzeSentiment is pending), the chunk
\* last processed and the time the pause ends; history: the items of that
\* chunk whose analyzeSentiment call failed with no cache entry for the title
IdleCycle == [pc |-> "idle", session |-> 0, batchNumber |-> 0, data |-> <<>>, i |-> 0,
              analysis |-> <<>>, processedChunk |-> <<>>, wakeAt |-> -1, uncached |-> {}]

NoDeps == [set |-> FALSE, retryCount |-> 0, isInitialLoad |-> TRUE]

\* the App before its first render is committed
IdleApp ==
  /\ news = <<>>
  /\ loading = TRUE
  /\ error = ""
  /\ retryCount = 0
  /\ isInitialLoad = TRUE
  /\ mounted = FALSE
  /\ deps = NoDeps
  /\ session = 0
  /\ currentBatch = 0
  /\ intervalAt = -1
  /\ retryTimers = {}
  /\ cycles = [s \in AppSlots |-> IdleCycle]

\* the state a task of the news effect reads and writes
AppState ==
  [news |-> news, loading |-> loading, error |-> error, retryCount |-> retryCount,
   isInitialLoad |-> isInitialLoad, mounted |-> mounted, session |-> session,
   currentBatch |-> currentBatch, retryTimers |-> retryTimers, cycles |-> cycles]

\* the task ends with the App in state S
Commit(S) ==
  /\ news' = S.news
  /\ loading' = S.loading
  /\ error' = S.error
  /\ retryCount' = S.retryCount
  /\ isInitialLoad' = S.isInitialLoad
  /\ mounted' = S.mounted
  /\ session' = S.session
  /\ currentBatch' = S.currentBatch
  /\ retryTimers' = S.retryTimers
  /\ cycles' = S.cycles

\* mutant: the guard without isMounted
Current_BatchOnly(S, r) == r.batchNumber = S.currentBatch

\* isMounted && batchNumber === currentBatch, in the closure of the cycle r.
\* The closure of an effect run also holds the retryCount and isInitialLoad
\* the effect ran with: these are the values of the state for as long as the
\* run is the current one, and only a current cycle reads them.
Current(S, r) ==
  S.mounted /\ r.session = S.session /\ r.batchNumber = S.currentBatch

\* the dependencies of the news effect have changed since it last ran: React
\* runs its cleanup and the effect again before any other task
EffectPending ==
  mounted /\ (deps.retryCount # retryCount \/ deps.isInitialLoad # isInitialLoad)

HasFreeSlot == \E s \in AppSlots : cycles[s].pc = "idle"
FreeSlot == CHOOSE s \in AppSlots :
              cycles[s].pc = "idle" /\ \A t \in AppSlots : cycles[t].pc = "idle" => s <= t

\* mutant: everything that is left of the list is taken as one chunk
Chunk_Rest(r) == SubSeq(r.data, r.i + 1, Len(r.data))

\* response.Data.slice(i, i + chunkSize)
Chunk(r) == SubSeq(r.data, r.i + 1, Min(r.i + CHUNK_SIZE, Len(r.data)))

\* the invocation in slot s returns
EndCycle(S, s) == [S EXCEPT !.cycles[s] = IdleCycle]

\* mutant: the chunk is merged into the feed whichever cycle produced it
MergeChunk_Unguarded(S, s, processedChunk) ==
  [S EXCEPT !.news = Reconcile(S.news, processedChunk),
            !.cycles[s] = [S.cycles[s] EXCEPT !.pc = "pause", !.analysis = <<>>,
                                              !.processedChunk = processedChunk,
                                              !.wakeAt = now + CHUNK_PAUSE,
                                              !.uncached = {}]]

\* the lines after await Promise.all(chunkPromises): the chunk is merged into
\* the feed when the cycle is still the current one, and the pause begins
MergeChunk(S, s, processedChunk) ==
  [S EXCEPT !.news = IF Current(S, S.cycles[s]) THEN Reconcile(S.news, processedChunk)
                     ELSE S.news,
            !.cycles[s] = [S.cycles[s] EXCEPT !.pc = "pause", !.analysis = <<>>,
                                              !.processedChunk = processedChunk,
                                              !.wakeAt = now + CHUNK_PAUSE,
                                              !.uncached = {}]]

\* chunk.map(...): analyzeSentiment is called for every item of the chunk and
\* resolves from a fresh cache entry; when no call is left pending the chunk
\* is processed in the same task
BeginChunk(S, s, draws) ==
  LET r == S.cycles[s]
      chunk == Chunk(r)
      analysis == [k \in 1..Len(chunk) |->
                     IF SentimentFresh(chunk[k].title)
                     THEN sentimentCache[chunk[k].title].sentiment ELSE ""]
  IN  IF \A k \in 1..Len(chunk) : analysis[k] # ""
      THEN MergeChunk(S, s, [k \in 1..Len(chunk) |-> EnrichItem(chunk[k], analysis[k], draws)])
      ELSE [S EXCEPT !.cycles[s] = [r EXCEPT !.pc = "enrich", !.analysis = analysis,
                                             !.processedChunk = <<>>, !.wakeAt = -1]]

\* the lines after the loop and the finally block
FinishCycle(S, s) ==
  IF Current(S, S.cycles[s])
  THEN EndCycle([S EXCEPT !.retryCount = 0, !.isInitialLoad = FALSE, !.loading = FALSE], s)
  ELSE EndCycle(S, s)

\* the head of the for loop for the index r.i
LoopTop(S, s, draws) ==
  LET r == S.cycles[s]
  IN  IF r.i < Len(r.data)
      THEN IF ~Current(S, r) THEN FinishCycle(S, s) ELSE BeginChunk(S, s, draws)
      ELSE FinishCycle(S, s)

\* the lines after await fetchCryptoNews() when it resolved with Data
AfterResponse(S, s, Data, draws) ==
  IF ~Current(S, S.cycles[s])
  THEN EndCycle(S, s)
  ELSE LoopTop([S EXCEPT !.cycles[s].data = Data, !.cycles[s].i = 0], s, draws)

\* mutant: a retry is scheduled after every failure
CatchCycle_AlwaysRetry(S, s) ==
  IF Current(S, S.cycles[s])
  THEN EndCycle([S EXCEPT !.error = "Failed to fetch news. Please try again later.",
                          !.retryTimers =
                             @ \cup {[session |-> S.session,
                                      backoffTime |-> Pow2(S.retryCount) * 1000,
                                      dueAt |-> now + Pow2(S.retryCount) * 1000]},
                          !.loading = FALSE], s)
  ELSE EndCycle(S, s)

\* mutant: the error is set only when no retry is left
CatchCycle_QuietRetries(S, s) ==
  IF Current(S, S.cycles[s])
  THEN EndCycle([S EXCEPT !.error = IF S.retryCount < MaxAppRetries THEN @
                                    ELSE "Failed to fetch news. Please try again later.",
                          !.retryTimers =
                             IF S.retryCount < MaxAppRetries
                             THEN @ \cup {[session |-> S.session,
                                           backoffTime |-> Pow2(S.retryCount) * 1000,
                                           dueAt |-> now + Pow2(S.retryCount) * 1000]}
                             ELSE @,
                          !.loading = FALSE], s)
  ELSE EndCycle(S, s)

\* the catch and finally blocks of fetchNews
CatchCycle(S, s) ==
  IF Current(S, S.cycles[s])
  THEN EndCycle([S EXCEPT !.error = "Failed to fetch news. Please try again later.",
                          !.retryTimers =
                             IF S.retryCount < MaxAppRetries
                             THEN @ \cup {[session |-> S.session,
                                           backoffTime |-> Pow2(S.retryCount) * 1000,
                                           dueAt |-> now + Pow2(S.retryCount) * 1000]}
                             ELSE @,
                          !.loading = FALSE], s)
  ELSE EndCycle(S, s)

\* fetchNews() up to its first suspension, for the invocation put in slot s
FetchNews(S, s, draws) ==
  LET T == [S EXCEPT !.currentBatch = @ + 1,
                     !.loading = IF S.isInitialLoad THEN TRUE ELSE @,
                     !.error = "",
                     !.cycles[s] = [IdleCycle EXCEPT !.pc = "fetch", !.session = S.session,
                                                     !.batchNumber = S.currentBatch + 1]]
  IN  IF NewsCacheFresh THEN AfterResponse(T, s, newsCache.data, draws) ELSE T

\* the news effect runs: at mount, and again whenever retryCount or
\* isInitialLoad has changed; the cleanup of the previous run has set its
\* isMounted to false and cleared its interval
RunEffect ==
  /\ (~mounted /\ session = 0) \/ EffectPending
  /\ HasFreeSlot
  /\ \E draws \in Draws :
       Commit(FetchNews([AppState EXCEPT !.mounted = TRUE, !.session = @ + 1,
                                         !.currentBatch = 0], FreeSlot, draws))
  /\ deps' = [set |-> TRUE, retryCount |-> retryCount, isInitialLoad |-> isInitialLoad]
  /\ intervalAt' = now + REFRESH_INTERVAL
  /\ UNCHANGED <<now, newsVars, sentimentVars, marketVars>>

\* the interval of the current effect run fires
IntervalTick ==
  /\ mounted /\ ~EffectPending /\ intervalAt = now
  /\ HasFreeSlot
  /\ \E draws \in Draws : Commit(FetchNews(AppState, FreeSlot, draws))
  /\ intervalAt' = now + REFRESH_INTERVAL
  /\ UNCHANGED <<now, deps, newsVars, sentimentVars, marketVars>>

\* await fetchCryptoNews() ends for the invocation in slot s: both adapters
\* have settled, the aggregation is stored and returned
NewsResolves(s) ==
  /\ cycles[s].pc = "fetch" /\ ~EffectPending
  /\ \E cc \in AppCryptoCompareOutcomes, cp \in AppCryptoPanicOutcomes, draws \in Draws :
       LET allNews == MergeNews(FetchCryptoCompareNews(cc), FetchCryptoPanicNews(cp, nextSyn))
       IN  /\ nextSyn + MissingIds(cp.body) <= MaxSyn
           /\ nextSyn' = nextSyn + MissingIds(cp.body)
           /\ newsCache' = [set |-> TRUE, data |-> allNews, timestamp |-> now]
           /\ Commit(AfterResponse(AppState, s, allNews, draws))
  /\ UNCHANGED <<now, ncalls, lastReturned, lastSets, throws, sentimentVars, marketVars,
                 deps, intervalAt>>

\* await fetchCryptoNews() ends with a rejection, or with a response that has
\* no Data
NewsRejects(s) ==
  /\ cycles[s].pc = "fetch" /\ ~EffectPending
  /\ Commit(CatchCycle(AppState, s))
  /\ UNCHANGED <<now, newsVars, sentimentVars, marketVars, deps, intervalAt>>

\* the pending analyzeSentiment calls of the chunk settle and Promise.all
\* resolves: an answer is cached as it came and returned coerced, a failed
\* call returns the cached sentiment or NEUTRAL
ChunkSettles(s) ==
  /\ cycles[s].pc = "enrich" /\ ~EffectPending
  /\ \E env \in Envs :
       LET r == cycles[s]
           chunk == Chunk(r)
           pending == {k \in 1..Len(chunk) : r.analysis[k] = ""}
           sentiment(k) ==
             IF k \notin pending THEN r.analysis[k]
             ELSE IF env.classifier = "answers"
                  THEN Coerce(ParseSentiment(Verdict(chunk[k].title)))
                  ELSE CachedSentimentOrNeutral(chunk[k].title)
       IN  /\ sentimentCache' =
                [t \in AllTexts |->
                   IF env.classifier = "answers" /\ \E k \in pending : chunk[k].title = t
                   THEN SentimentEntry(Verdict(t)) ELSE sentimentCache[t]]
           /\ Commit([MergeChunk(AppState, s,
                        [k \in 1..Len(chunk) |-> EnrichItem(chunk[k], sentiment(k), env.draws)])
                      EXCEPT !.cycles[s].uncached =
                        {k \in pending : /\ env.classifier = "unreachable"
                                         /\ ~sentimentCache[chunk[k].title].set}])
  /\ UNCHANGED <<now, newsVars, scalls, marketVars, deps, intervalAt>>

\* the pause after a chunk is over: i += chunkSize and the loop goes on
PauseOver(s) ==
  /\ cycles[s].pc = "pause" /\ cycles[s].wakeAt = now /\ ~EffectPending
  /\ \E draws \in Draws :
       Commit(LoopTop([AppState EXCEPT !.cycles[s].i = @ + CHUNK_SIZE], s, draws))
  /\ UNCHANGED <<now, newsVars, sentimentVars, marketVars, deps, intervalAt>>

\* a retry timer fires: if (isMounted) setRetryCount(prev => prev + 1)
RetryTimerFires ==
  /\ ~EffectPending
  /\ \E t \in retryTimers :
       /\ t.dueAt = now
       /\ retryTimers' = retryTimers \ {t}
       /\ retryCount' = IF mounted /\ t.session = session THEN retryCount + 1 ELSE retryCount
  /\ UNCHANGED <<now, newsVars, sentimentVars, marketVars, news, loading, error, isInitialLoad,
                 mounted, deps, session, currentBatch, intervalAt, cycles>>

\* App is unmounted: the cleanup of the effect runs
Unmount ==
  /\ mounted /\ ~EffectPending
  /\ mounted' = FALSE
  /\ intervalAt' = -1
  /\ UNCHANGED <<now, newsVars, sentimentVars, marketVars, news, loading, error, retryCount,
                 isInitialLoad, deps, session, currentBatch, retryTimers, cycles>>

AppTimers ==
  {intervalAt : x \in {y \in {1} : mounted /\ intervalAt >= 0}}
  \cup {t.dueAt : t \in retryTimers}
  \cup {cycles[s].wakeAt : s \in {u \in AppSlots : cycles[u].pc = "pause"}}

TickApp == ~EffectPending /\ Tick(AppTimers, {}, MaxNowApp)
TickRetry == ~EffectPending /\ Tick(AppTimers, {}, MaxNowRetry)

---------------------------------------------------------------------------
(* Specifications *)

InitNews ==
  /\ now = 0
  /\ IdleNews
  /\ IdleSentiment
  /\ IdleMarket
  /\ IdleApp

NextNews ==
  \/ \E c \in Callers : StartNews(c)
  \/ \E c \in Callers : SettleCryptoCompare(c)
  \/ \E c \in Callers : SettleCryptoPanic(c)
  \/ \E c \in Callers : AbortTimeout(c)
  \/ TickNews

SpecNews == InitNews /\ [][NextNews]_vars

\* one caller, whose aggregation attempts may fail with an error that
\* reaches the catch block
NextNewsThrow ==
  \/ StartNews(1)
  \/ SettleCryptoCompare(1)
  \/ SettleCryptoPanic(1)
  \/ AbortTimeout(1)
  \/ TryBodyThrows(1)
  \/ RetryNews(1)
  \/ TickNews

SpecNewsThrow == InitNews /\ [][NextNewsThrow]_vars

InitSentiment ==
  /\ now = 0
  /\ IdleNews
  /\ IdleSentiment
  /\ IdleMarket
  /\ IdleApp

NextSentiment ==
  \/ \E c \in SCallers : StartSentiment(c)
  \/ \E c \in SCallers : SettleSentiment(c)
  \/ TickSentiment

SpecSentiment == InitSentiment /\ [][NextSentiment]_vars

NextMarket ==
  \/ StartMarket(1)
  \/ SettleMarket(1)
  \/ TimeoutMarket(1)
  \/ RateLimitWake(1)
  \/ TickMarket

SpecMarket == InitNews /\ [][NextMarket]_vars

NextHistory ==
  \/ StartHistory(1)
  \/ SettleHistory(1)
  \/ TimeoutHistory(1)
  \/ RateLimitWake(1)
  \/ TickMarket

SpecHistory == InitNews /\ [][NextHistory]_vars

\* analyzeSentiment shares no state with the two market functions, and these
\* two share the rate limiter only: a run of SpecApi uses one of the three
\* functions, from the state the module is loaded in
SentimentUnused ==
  /\ sentimentCache = [t \in AllTexts |-> NoEntry]
  /\ \A c \in SCallers : scalls[c].pc = "idle"
MarketUnused ==
  /\ ~marketDataCache.set
  /\ \A c \in MCallers : mcalls[c].fn # "market"
HistoryUnused ==
  /\ \A k \in Keys : ~priceHistoryCache[k].set
  /\ \A c \in MCallers : mcalls[c].fn # "history"

NextApi ==
  \/ /\ MarketUnused /\ HistoryUnused
     /\ \/ StartSentiment(1)
        \/ SettleSentiment(1)
        \/ TickSentiment
  \/ /\ SentimentUnused /\ HistoryUnused
     /\ \/ StartMarket(1)
        \/ SettleMarket(1)
        \/ TimeoutMarket(1)
  \/ /\ SentimentUnused /\ MarketUnused
     /\ \/ StartHistory(1)
        \/ SettleHistory(1)
        \/ TimeoutHistory(1)
  \/ /\ SentimentUnused
     /\ \/ RateLimitWake(1)
        \/ TickMarket

SpecApi == InitNews /\ [][NextApi]_vars

NextApp ==
  \/ RunEffect
  \/ IntervalTick
  \/ \E s \in AppSlots : NewsResolves(s)
  \/ \E s \in AppSlots : NewsRejects(s)
  \/ \E s \in AppSlots : ChunkSettles(s)
  \/ \E s \in AppSlots : PauseOver(s)
  \/ RetryTimerFires
  \/ Unmount
  \/ TickApp

SpecApp == InitNews /\ [][NextApp]_vars

\* checkRateLimit under two callers
NextLimit ==
  \/ \E c \in MCallers : CallCheckRateLimit(c)
  \/ \E c \in MCallers : DelayOverObserved(c)
  \/ \E c \in MCallers : RequestEnds(c)
  \/ TickLimit

SpecRateLimit == InitNews /\ [][NextLimit]_vars

\* the news effect while fetchCryptoNews rejects every time
NextRetry ==
  \/ RunEffect
  \/ IntervalTick
  \/ \E s \in AppSlots : NewsRejects(s)
  \/ RetryTimerFires
  \/ Unmount
  \/ TickRetry

SpecRetry == InitNews /\ [][NextRetry]_vars

---------------------------------------------------------------------------
(* Properties of analyzeSentiment *)

\* C1: every sentiment analyzeSentiment resolves with is POSITIVE, NEUTRAL or
\* NEGATIVE, whichever way the call returns.
C1_SentimentInSet ==
  \A c \in SCallers :
    scalls[c].pc = "resolved" => scalls[c].content \in {"POSITIVE", "NEUTRAL", "NEGATIVE"}

\* C10: a call of analyzeSentiment, fetchMarketData or fetchPriceHistory is
\* never rejected, and a call that has ended has resolved with a value,
\* however its upstream request ended.
C10_NeverRejects ==
  /\ \A c \in SCallers :
       /\ scalls[c].pc \in {"idle", "await", "resolved"}
       /\ scalls[c].pc = "resolved" => scalls[c].content # ""
  /\ \A c \in MCallers :
       /\ mcalls[c].pc \in {"idle", "ratewait", "fetch", "resolved"}
       /\ mcalls[c].pc = "resolved" => mcalls[c].result.origin \in {"live", "mock", "fallback"}

C10_Witness ==
  \E c \in MCallers :
    /\ mcalls[c].pc = "resolved" /\ mcalls[c].fn = "history"
    /\ mcalls[c].path = "catch-stale"
    /\ priceHistoryCache[CacheKey(mcalls[c].symbol, mcalls[c].range)].set

---------------------------------------------------------------------------
(* Properties of the feed of App.tsx *)

\* the fetchNews invocation in slot s has, in this step, passed the lines after
\* await Promise.all while it was the current one: its chunk was handed to
\* setNews
Merged(s) ==
  /\ cycles'[s].pc = "pause"
  /\ <<cycles[s].pc, cycles[s].session, cycles[s].batchNumber, cycles[s].i>>
       # <<cycles'[s].pc, cycles'[s].session, cycles'[s].batchNumber, cycles'[s].i>>
  /\ mounted' /\ cycles'[s].session = session' /\ cycles'[s].batchNumber = currentBatch'

\* the last position of chunk that holds id
LastIndex(chunk, id) ==
  CHOOSE k \in 1..Len(chunk) :
    chunk[k].id = id /\ \A j \in (k + 1)..Len(chunk) : chunk[j].id # id

\* C5: the feed is non-increasing in published_on in every state, so after
\* every chunk merge of every fetch cycle.
C5_FeedSorted == NonIncreasing(news)

C5_Witness ==
  \E s \in AppSlots :
    /\ cycles[s].pc = "pause" /\ Current(AppState, cycles[s])
    /\ Len(cycles[s].data) = 12 /\ cycles[s].i = 10
    /\ UpsertFrom(<<>>, cycles[s].processedChunk, 1) = cycles[s].processedChunk
    /\ news[Len(news)] = cycles[s].processedChunk[2]
    /\ news[Len(news) - 1] = cycles[s].processedChunk[1]
    /\ \E k \in 1..Len(news) : news[k].published_on > news[Len(news)].published_on

\* C6: the feed holds one entry per id in every state, and the ids of the
\* chunks the current cycle has merged are in it; a step that merges a
\* processed chunk leaves a feed whose ids are the ids before united with the
\* ids of the chunk, in which an id of the chunk has the chunk's last item of
\* that id, and in which every other entry is an entry of the feed before.
C6_ReconcileById ==
  /\ [](\A id \in Ids(news) : CountId(news, id) = 1)
  /\ [](\A s \in AppSlots :
          (cycles[s].pc = "pause" /\ Current(AppState, cycles[s])) =>
             Ids(SubSeq(cycles[s].data, 1,
                        Min(cycles[s].i + CHUNK_SIZE, Len(cycles[s].data)))) \subseteq Ids(news))
  /\ [][\A s \in AppSlots : Merged(s) =>
          LET chunk == cycles'[s].processedChunk
          IN  /\ Ids(news') = Ids(news) \cup Ids(chunk)
              /\ \A k \in 1..Len(news') :
                   IF news'[k].id \in Ids(chunk)
                   THEN news'[k] = chunk[LastIndex(chunk, news'[k].id)]
                   ELSE \E j \in 1..Len(news) : news[j] = news'[k]]_vars

C6_Witness ==
  \E s \in AppSlots :
    /\ cycles[s].pc = "pause" /\ Current(AppState, cycles[s])
    /\ Len(cycles[s].data) = 12 /\ Cardinality(Ids(cycles[s].data)) = 10
    /\ cycles[s].i = 10
    /\ Len(news) = 10
    /\ \E k \in 1..Len(news) : news[k].id = 6 /\ news[k].source = "CryptoCompare"

\* C7: every item of the feed carries a sentiment, a reliability and an
\* impact, in every state: whichever branch of the chunk mapper made the item,
\* and whatever a later cycle puts in its place.
C7_FeedEnriched ==
  \A k \in 1..Len(news) :
    /\ news[k].sentiment # NoSentiment
    /\ news[k].reliability # NoReliability
    /\ news[k].impact # NoImpact

C7_Witness ==
  \E k \in 1..Len(news) : \E j \in 1..Len(news) :
    /\ news[k].body = -1 /\ news[k].sentiment = "NEUTRAL" /\ news[k].reliability \in 70..84
    /\ news[j].body # -1 /\ news[j].sentiment = "POSITIVE" /\ news[j].reliability >= 75
    /\ \E s \in AppSlots :
         /\ cycles[s].pc = "pause" /\ Current(AppState, cycles[s]) /\ cycles[s].session >= 2
         /\ \E i \in 1..Len(cycles[s].processedChunk) : cycles[s].processedChunk[i] = news[k]

---------------------------------------------------------------------------
(* Properties of fetchCryptoNews *)

\* s and t hold the same items, each as often in s as in t
SameItems(s, t) ==
  /\ Len(s) = Len(t)
  /\ \A x \in Range(s) \cup Range(t) : Occurrences(s, x) = Occurrences(t, x)

IsPrefix(s, t) == Len(s) <= Len(t) /\ \A i \in 1..Len(s) : s[i] = t[i]

\* C2: a call that starts while the entry written at newsCache.timestamp is
\* younger than 60000 ms resolves at once with the list the storing call
\* returned, invokes no adapter and leaves the cache alone; over the storing
\* call and this one exactly one adapter call set is issued.
C2_FreshCacheHit ==
  [][\A c \in Callers :
       (StartNews(c) /\ newsCache.set /\ now - newsCache.timestamp < 60000)
         => /\ ncalls'[c].pc = "resolved"
            /\ ncalls'[c].result = lastReturned
            /\ ~ncalls'[c].cc.done /\ ~ncalls'[c].cp.done
            /\ lastSets + ncalls'[c].sets = 1
            /\ newsCache' = newsCache]_vars

C2_Witness ==
  \E c \in Callers :
    /\ ncalls[c].pc = "resolved" /\ ncalls[c].hit
    /\ Len(ncalls[c].result) > 0 /\ ncalls[c].result = lastReturned
    /\ now > newsCache.timestamp /\ now - newsCache.timestamp < 60000

\* C3: the list a call of fetchCryptoNews resolves with holds at most one
\* entry per id.
C3_OneEntryPerId ==
  \A c \in Callers :
    ncalls[c].pc = "resolved" =>
      \A id \in Ids(ncalls[c].result) : CountId(ncalls[c].result, id) = 1

\* C4: when exactly one adapter of an aggregation failed, the call resolves
\* (it does not reject) with the other adapter's items, each as often as the
\* adapter gave it.
C4_OneProviderFails ==
  \A c \in Callers :
    (/\ ncalls[c].pc \in {"resolved", "rejected"} /\ ~ncalls[c].hit
     /\ ncalls[c].cc.done /\ ncalls[c].cp.done
     /\ ncalls[c].cc.failed # ncalls[c].cp.failed)
      => /\ ncalls[c].pc = "resolved"
         /\ SameItems(ncalls[c].result,
                      IF ncalls[c].cc.failed THEN ncalls[c].cp.items
                                             ELSE ncalls[c].cc.items)

C4_Witness ==
  \E c \in Callers :
    /\ ncalls[c].pc = "resolved" /\ ~ncalls[c].hit
    /\ ncalls[c].cc.done /\ ncalls[c].cc.failed
    /\ ncalls[c].cp.done /\ ~ncalls[c].cp.failed
    /\ Len(ncalls[c].result) = 2

\* C8: once the 10 s timer of an aggregation has fired, the call is rejected
\* with the timeout error.
C8_TimeoutRejects ==
  \A c \in Callers :
    ncalls[c].aborted =>
      /\ ncalls[c].pc = "rejected"
      /\ ncalls[c].error = "Request timeout - please try again"

Backoff == <<1000, 2000, 4000>>

\* C9: the waits between the failed attempts of one call are 1000, 2000 and
\* 4000 ms, in this order; a call waits only while fewer than three retries
\* were made and starts at most four aggregations; a call gives up only after
\* all three waits, and it then resolves with the list last stored in the
\* news cache, or the empty list when nothing was stored.
C9_BackoffThenFallback ==
  /\ [](\A c \in Callers :
          /\ IsPrefix(ncalls[c].delays, Backoff)
          /\ ncalls[c].pc = "delay" => Len(ncalls[c].delays) < 3
          /\ ncalls[c].sets <= 4
          /\ ncalls[c].gaveUp => ncalls[c].delays = Backoff /\ ncalls[c].pc = "resolved")
  /\ [][\A c \in Callers :
          (~ncalls[c].gaveUp /\ ncalls'[c].gaveUp) =>
             /\ ncalls'[c].result = lastReturned
             /\ newsCache' = newsCache]_vars

C9_Witness ==
  \E c \in Callers :
    /\ ncalls[c].gaveUp /\ ncalls[c].pc = "resolved"
    /\ ncalls[c].delays = Backoff
    /\ newsCache.set /\ now - newsCache.timestamp >= 60000
    /\ Len(ncalls[c].result) > 0 /\ ncalls[c].result = newsCache.data

\* the entries of the feed that the try branch of the enrichment produced
NonFallback == {k \in 1..Len(news) : news[k].body # -1}

\* C23: the non-fallback enrichment sets impact to High iff the title has an
\* urgency keyword or (a market keyword and a sentiment other than NEUTRAL);
\* otherwise to Medium iff the title has a market keyword or the sentiment is
\* not NEUTRAL; otherwise to Low
C23_ImpactRule ==
  \A k \in NonFallback :
    LET urgent == HasUrgentKeywords(news[k].title)
        market == HasPriceKeywords(news[k].title)
        moved == news[k].sentiment # "NEUTRAL"
    IN  /\ news[k].impact \in {"High", "Medium", "Low"}
        /\ news[k].impact = "High" <=> (urgent \/ (market /\ moved))
        /\ news[k].impact = "Medium" <=> (~(urgent \/ (market /\ moved)) /\ (market \/ moved))
        /\ news[k].impact = "Low" <=> (~urgent /\ ~market /\ ~moved)

\* a feed that shows every case of the rule: High by urgency alone, High by
\* market keyword and sentiment, Medium by market keyword alone, Medium by
\* sentiment alone, and Low
C23_Witness ==
  /\ \E k \in NonFallback : HasUrgentKeywords(news[k].title) /\ news[k].sentiment = "NEUTRAL"
                               /\ news[k].impact = "High"
  /\ \E k \in NonFallback : HasPriceKeywords(news[k].title) /\ news[k].sentiment # "NEUTRAL"
                               /\ news[k].impact = "High"
  /\ \E k \in NonFallback : HasPriceKeywords(news[k].title) /\ news[k].sentiment = "NEUTRAL"
                               /\ news[k].impact = "Medium"
  /\ \E k \in NonFallback : ~HasPriceKeywords(news[k].title) /\ news[k].sentiment # "NEUTRAL"
                               /\ news[k].impact = "Medium"
  /\ \E k \in NonFallback : news[k].impact = "Low"

---------------------------------------------------------------------------
(* Properties of the scheduler of App.tsx *)

\* the invocation of fetchNews in slot s runs in this step
CycleSteps(s) == cycles[s].pc # "idle" /\ cycles'[s] # cycles[s]

\* a newer invocation of the same effect run has started since the one in
\* slot s did
Superseded(s) ==
  /\ cycles[s].pc # "idle"
  /\ cycles[s].session = session
  /\ cycles[s].batchNumber # currentBatch

\* what the consumer sees of the scheduler, and its retry state
Visible == <<news, error, loading, retryCount, isInitialLoad, retryTimers>>

\* C11: a fetch cycle whose batch number is no longer the latest of its
\* session never modifies the feed, the error, the loading flag or the retry
\* state: whatever it does after a newer cycle has started (its fetched list
\* arrives, its chunk is enriched, its fetch fails) leaves them as they were
C11_StaleCycleDiscarded ==
  [][\A s \in AppSlots : (Superseded(s) /\ CycleSteps(s)) => UNCHANGED Visible]_vars

\* a superseded cycle has enriched a chunk that is not in the feed
C11_Witness ==
  \E s \in AppSlots :
    /\ Superseded(s)
    /\ cycles[s].pc = "pause"
    /\ cycles[s].processedChunk # <<>>
    /\ \E k \in 1..Len(cycles[s].processedChunk) :
         cycles[s].processedChunk[k].id \notin Ids(news)

\* the effect run the invocation in slot s belongs to has been cleaned up
TornDown(s) ==
  /\ cycles[s].pc # "idle"
  /\ ~mounted \/ cycles[s].session # session

\* the state the consumer renders, and the two dependencies of the effect
Shown == <<news, error, loading, retryCount, isInitialLoad>>

\* C12: after the cleanup of an effect run its interval no longer fires, and
\* nothing that belongs to the run changes the feed, the error, the loading
\* flag or the retry state: not a fetch in flight, not a chunk being
\* enriched, not a retry timer that is still pending
C12_TeardownSilences ==
  [][/\ \A s \in AppSlots :
          (TornDown(s) /\ CycleSteps(s)) => UNCHANGED <<Shown, retryTimers>>
     /\ \A t \in retryTimers \ retryTimers' :
          (~mounted \/ t.session # session) => UNCHANGED Shown
     /\ (~mounted /\ session # 0) =>
          /\ UNCHANGED <<Shown, session, currentBatch, intervalAt>>
          /\ \A s \in AppSlots : cycles[s].pc = "idle" => cycles'[s].pc = "idle"]_vars

\* App is unmounted while a retry timer of its effect run is pending, and a
\* cycle of that run has since enriched a chunk that is not in the feed
C12_Witness ==
  /\ ~mounted
  /\ \E t \in retryTimers : t.session = session /\ t.dueAt >= now
  /\ \E s \in AppSlots :
       /\ cycles[s].pc = "pause"
       /\ cycles[s].processedChunk # <<>>
       /\ \E k \in 1..Len(cycles[s].processedChunk) :
            cycles[s].processedChunk[k].id \notin Ids(news)

\* the retry timer a cycle failing now schedules while retryCount is n
RetryTimer(n) ==
  [session |-> session, backoffTime |-> Backoff[n + 1], dueAt |-> now + Backoff[n + 1]]

\* an invocation of fetchNews starts in this step
CycleStarts == session' # session \/ currentBatch' # currentBatch

\* C13: after a current cycle fails a retry is scheduled if and only if
\* retryCount < 3, with a delay of 1 s, 2 s, 4 s for retryCount 0, 1, 2; when
\* the retry fires retryCount grows by exactly 1 and a new cycle starts;
\* retryCount never exceeds 3; with retryCount = 3 a failing cycle schedules
\* nothing and the next cycle starts only when the interval fires
C13_RetrySchedule ==
  /\ [](retryCount <= 3)
  /\ [][/\ \A s \in AppSlots :
             (NewsRejects(s) /\ Current(AppState, cycles[s])) =>
               retryTimers' = IF retryCount < 3 THEN retryTimers \cup {RetryTimer(retryCount)}
                              ELSE retryTimers
        /\ \A t \in retryTimers \ retryTimers' :
             (mounted /\ t.session = session) =>
               /\ now = t.dueAt
               /\ retryCount' = retryCount + 1
               /\ EffectPending'
        /\ EffectPending => (session' = session + 1 /\ currentBatch' = 1)
        /\ (mounted /\ ~EffectPending /\ retryCount = 3 /\ CycleStarts) =>
             (intervalAt = now /\ currentBatch' = currentBatch + 1 /\ session' = session)]_vars

\* the scheduler has given up: with retryCount = 3 the cycle of the effect
\* run has failed, no retry is pending, and the interval has started the
\* second cycle of the run
C13_Witness ==
  /\ mounted /\ ~EffectPending
  /\ retryCount = 3
  /\ retryTimers = {}
  /\ currentBatch = 2
  /\ \E s \in AppSlots :
       /\ cycles[s].pc = "fetch" /\ cycles[s].batchNumber = 2
       /\ \A u \in AppSlots \ {s} : cycles[u].pc = "idle"

\* C14: the error the consumer renders is set only when the scheduler has
\* given up, that is with retryCount = 3; a failure that still has a retry
\* scheduled does not put the consumer into the error state
C14_ErrorOnlyAfterGivingUp ==
  error # "" => (retryCount >= MaxAppRetries /\ \A t \in retryTimers : t.session # session)

\* C14, as the code has it: every failure of a current cycle sets the error
\* the consumer renders, whether or not a retry is scheduled, and the error
\* stays until the next cycle starts and clears it
C14_ErrorOnEveryFailure ==
  [][/\ \A s \in AppSlots :
          (NewsRejects(s) /\ Current(AppState, cycles[s])) => error' # ""
     /\ CycleStarts => error' = ""
     /\ (error # "" /\ ~CycleStarts) => error' = error]_vars

\* the error is shown while the first retry is pending
C14_Witness ==
  /\ mounted
  /\ error # ""
  /\ retryCount = 0
  /\ \E t \in retryTimers : t.session = session /\ t.dueAt > now

\* C15: one cycle starts at mount, and after it a cycle starts only when the
\* interval of the effect run fires or when a scheduled retry has fired
C15_CyclesStartOnTimers ==
  [][CycleStarts =>
       \/ ~mounted /\ session = 0
       \/ ~EffectPending /\ intervalAt = now
       \/ /\ EffectPending
          /\ retryCount = deps.retryCount + 1
          /\ isInitialLoad = deps.isInitialLoad]_vars

\* the entries of the feed for the provider item that came without an id
\* (the one CryptoPanic post of the payload published at 105000 ms)
SynthesizedEntries ==
  {k \in 1..Len(news) : news[k].source = "CryptoPanic" /\ news[k].published_on = 105}

\* C17: a provider item without a natural id gets the same id on every fetch
\* within a session, so that after any number of refresh cycles it occupies
\* exactly one entry of the feed
C17_OneEntryPerItem ==
  /\ Cardinality(SynthesizedEntries) <= 1
  /\ \A k \in SynthesizedEntries : news[k].id = SynBase

\* C18: when the classification endpoint is unreachable for the title of an
\* item and the sentiment cache holds no entry for that title, the enriched
\* item has sentiment NEUTRAL, a reliability in [70,85) and an impact among
\* High, Medium, Low, as the fallback branch produces them
C18_UnreachableGivesFallback ==
  \A s \in AppSlots :
    cycles[s].pc = "pause" =>
      \A k \in cycles[s].uncached :
        /\ cycles[s].processedChunk[k].sentiment = "NEUTRAL"
        /\ cycles[s].processedChunk[k].reliability \in 70..84
        /\ cycles[s].processedChunk[k].impact \in {"High", "Medium", "Low"}

---------------------------------------------------------------------------
(* Properties of fetchCryptoNews, continued *)

\* the call in slot c has aggregated and returned
Aggregated(c) == ncalls[c].pc = "resolved" /\ ~ncalls[c].hit

\* C19: within one aggregation of fetchCryptoNews the returned sequence is
\* the same whichever adapter completes first: two aggregations whose
\* adapters gave the same results return the same list, in whatever order
\* the adapters settled
C19_OrderIndependent ==
  \A c, d \in Callers :
    (/\ Aggregated(c) /\ Aggregated(d)
     /\ ncalls[c].cc.items = ncalls[d].cc.items
     /\ ncalls[c].cp.items = ncalls[d].cp.items)
    => ncalls[c].result = ncalls[d].result

\* two aggregations of the same adapter results, both providers delivering,
\* one with CryptoCompare settling first and one with CryptoPanic
C19_Witness ==
  \E c, d \in Callers :
    /\ Aggregated(c) /\ Aggregated(d)
    /\ ncalls[c].cc.items = ncalls[d].cc.items /\ ncalls[c].cc.items # <<>>
    /\ ncalls[c].cp.items = ncalls[d].cp.items /\ ncalls[c].cp.items # <<>>
    /\ ncalls[c].first = "cc" /\ ncalls[d].first = "cp"
    /\ ncalls[c].result = ncalls[d].result

\* C22: two overlapping calls of fetchCryptoNews made while the news cache is
\* absent or expired invoke the provider adapters for one upstream call set
\* only: the second caller does not act on the same cache miss
C22_OneCallSetPerMiss ==
  Cardinality({c \in Callers : ncalls[c].pc = "await" /\ ncalls[c].sets > 0}) <= 1

\* the analyzeSentiment calls of the cycle in slot s that have not settled
InFlight(s) ==
  IF cycles[s].pc = "enrich"
  THEN {k \in 1..Len(cycles[s].analysis) : cycles[s].analysis[k] = ""}
  ELSE {}

\* C24: within one fetch cycle the items are classified in consecutive chunks
\* of at most 5: a chunk is classified only after every chunk before it has
\* settled and has been merged into the feed, so that at most 5
\* classification calls of a cycle are in flight
C24_ChunksInSequence ==
  /\ [](\A s \in AppSlots :
          /\ Cardinality(InFlight(s)) <= CHUNK_SIZE
          /\ cycles[s].pc = "enrich" =>
               \A j \in 1..cycles[s].i :
                 \E k \in 1..Len(news) : /\ news[k].id = cycles[s].data[j].id
                                          /\ news[k].sentiment # NoSentiment)
  /\ [][\A s \in AppSlots :
          (cycles[s].pc # "idle" /\ cycles'[s].pc # "idle" /\ cycles'[s].i # cycles[s].i) =>
            /\ cycles[s].pc = "pause" /\ InFlight(s) = {}
            /\ cycles'[s].i = cycles[s].i + CHUNK_SIZE]_vars

\* the five calls of the second chunk of a cycle are in flight, the first
\* chunk being in the feed
C24_Witness ==
  \E s \in AppSlots :
    /\ cycles[s].pc = "enrich" /\ cycles[s].i = CHUNK_SIZE
    /\ Cardinality(InFlight(s)) = CHUNK_SIZE
    /\ \A j \in 1..CHUNK_SIZE : cycles[s].data[j].id \in Ids(news)

---------------------------------------------------------------------------
\* the aggregation of caller c completes in this step with both adapters failed
AllAdaptersFailed(c) ==
  /\ ncalls[c].pc = "await" /\ ncalls'[c].pc = "resolved"
  /\ ncalls'[c].cc.failed /\ ncalls'[c].cp.failed

\* C28: an aggregation in which both adapters fail, completing while the news
\* cache holds a non-empty list, leaves that list in the cache and returns it
\* to the caller.
C28_FailedAggregationKeepsCache ==
  [][\A c \in Callers :
       (AllAdaptersFailed(c) /\ newsCache.set /\ newsCache.data # <<>>) =>
         /\ newsCache'.data = newsCache.data
         /\ ncalls'[c].result = newsCache.data
    ]_vars

(* Properties of checkRateLimit *)

\* C16: under any interleaving of callers checkRateLimit returns at most
\* maxRequests (10) times within any interval of timeWindow (60000 ms):
\* grantTimes holds the returns less than timeWindow before the latest one
C16_AtMostMaxRequests == Len(grantTimes) <= MaxRequests

\* C20: when checkRateLimit is entered with the quota used up
\* (requestCount >= 10) before the window that began at lastRequestTime has
\* elapsed, the caller is suspended for exactly
\* timeWindow - (now - lastRequestTime) ms; then a new window starts and the
\* slot is granted, which leaves requestCount = 1
C20_SuspendedUntilWindowEnds ==
  /\ [](\A c \in MCallers : mcalls[c].pc = "ratewait" => now <= mcalls[c].wakeAt)
  /\ [][\A c \in MCallers :
          /\ (/\ mcalls[c].pc = "idle" /\ mcalls'[c].pc # "idle"
              /\ requestCount >= MaxRequests
              /\ now - lastRequestTime < TimeWindow)
             => /\ mcalls'[c].pc = "ratewait"
                /\ mcalls'[c].wakeAt = now + (TimeWindow - (now - lastRequestTime))
                /\ UNCHANGED <<requestCount, lastRequestTime, grantTimes>>
          /\ (mcalls[c].pc = "ratewait" /\ mcalls'[c].pc # "ratewait")
             => /\ now = mcalls[c].wakeAt
                /\ mcalls'[c].pc = "fetch"
                /\ requestCount' = 1
                /\ lastRequestTime' = now
                /\ grantTimes' # grantTimes]_vars

\* a caller that was suspended for 40 s has just been granted the first slot
\* of a new window
C20_Witness ==
  \E c \in MCallers :
    /\ mcalls[c].pc = "fetch"
    /\ mcalls[c].waited = 40000
    /\ requestCount = 1
    /\ lastRequestTime = now
    /\ grantTimes # <<>> /\ grantTimes[Len(grantTimes)] = now

\* C21: requestCount always equals the number of slots granted since the
\* current window began, also when several callers are suspended on a used-up
\* quota at once: a caller that resumes does not erase the slots granted to
\* others in the new window
C21_CountMatchesGrants == requestCount = windowGrants

---------------------------------------------------------------------------
\* C27: requestCount is at most maxRequests in every state, the one after a
\* call made exactly timeWindow ms after lastRequestTime included.
C27_CountWithinMax == requestCount <= MaxRequests

(* Properties of the market caches *)

\* the call in slot c starts in this step
CallStarts(c) ==
  mcalls[c].pc \in {"idle", "resolved", "rejected"} /\ mcalls'[c] # mcalls[c]

\* the call in slot c returns in this step
CallReturns(c) == mcalls[c].pc = "fetch" /\ mcalls'[c].pc = "resolved"

Expired(entry) == entry.set /\ now - entry.timestamp >= MARKET_DATA_CACHE_DURATION

\* C25: a cache entry is never removed by expiry; once now - timestamp >= TTL
\* a call does not return it at once but attempts an upstream fetch, and when
\* that fetch fails into the catch block the call returns the data of the
\* expired entry (the snapshot for fetchMarketData, the entry of the same
\* symbol-range key for fetchPriceHistory), not mock data, and leaves the
\* entry as it is
C25_ExpiredEntryIsFallback ==
  [][/\ marketDataCache.set => marketDataCache'.set
     /\ \A k \in Keys : priceHistoryCache[k].set => priceHistoryCache'[k].set
     /\ now' # now => UNCHANGED <<marketDataCache, priceHistoryCache>>
     /\ \A c \in MCallers :
          /\ (CallStarts(c) /\ mcalls'[c].fn = "market" /\ Expired(marketDataCache))
               => mcalls'[c].pc \in {"fetch", "ratewait"}
          /\ (CallStarts(c) /\ mcalls'[c].fn = "history"
                /\ Expired(priceHistoryCache[CacheKey(mcalls'[c].symbol, mcalls'[c].range)]))
               => mcalls'[c].pc \in {"fetch", "ratewait"}
          /\ (CallReturns(c) /\ mcalls[c].fn = "market" /\ marketDataCache.set
                /\ mcalls'[c].path \in {"catch-stale", "catch-fallback"})
               => /\ mcalls'[c].path = "catch-stale"
                  /\ mcalls'[c].result = marketDataCache.data
                  /\ UNCHANGED marketDataCache
          /\ (CallReturns(c) /\ mcalls[c].fn = "history"
                /\ priceHistoryCache[CacheKey(mcalls[c].symbol, mcalls[c].range)].set
                /\ mcalls'[c].path \in {"catch-stale", "catch-mock"})
               => /\ mcalls'[c].path = "catch-stale"
                  /\ mcalls'[c].result =
                       priceHistoryCache[CacheKey(mcalls[c].symbol, mcalls[c].range)].data
                  /\ UNCHANGED priceHistoryCache]_vars

\* C25, read for every way a request can fail to deliver data other than the
\* HTTP 429 that the specification answers with mock data: a call of
\* fetchMarketData that finds an expired entry and does not obtain live data
\* returns the data of that entry
C25_AnyFailureUsesExpired ==
  [][\A c \in MCallers :
       (CallReturns(c) /\ mcalls[c].fn = "market" /\ Expired(marketDataCache)
         /\ mcalls'[c].path \notin {"live", "mock-429"})
        => mcalls'[c].result = marketDataCache.data]_vars

\* a call of fetchMarketData whose request failed has returned the live
\* snapshot of an entry that had expired
C25_Witness ==
  \E c \in MCallers :
    /\ mcalls[c].pc = "resolved" /\ mcalls[c].fn = "market"
    /\ mcalls[c].path = "catch-stale"
    /\ Expired(marketDataCache)
    /\ mcalls[c].result = marketDataCache.data
    /\ mcalls[c].result.origin = "live"

\* C29: the snapshot a call of fetchMarketData(symbol) has resolved with was
\* fetched or generated for that symbol.
C29_SnapshotOfRequestedSymbol ==
  \A c \in MCallers :
    (mcalls[c].pc = "resolved" /\ mcalls[c].fn = "market")
      => mcalls[c].result.symbol = mcalls[c].symbol

\* the refresh of the fetchPriceHistory call in slot c fails in this step
HistoryRefreshFails(c) ==
  /\ mcalls[c].pc = "fetch" /\ mcalls[c].fn = "history"
  /\ mcalls'[c].pc = "resolved" /\ mcalls'[c].path # "live"

\* C30: a refresh of fetchPriceHistory that fails does not renew the freshness
\* of data that was in the cache under its key: when the call had found an
\* entry under the key and the failing step writes the entry of the key, the
\* timestamp written is not later than the one the call had found, so that the
\* data is a fresh hit only within 30 s of the moment it was obtained.
C30_FailedRefreshKeepsAge ==
  [][\A c \in MCallers :
       LET key == CacheKey(mcalls[c].symbol, mcalls[c].range)
       IN  (/\ HistoryRefreshFails(c)
            /\ mcalls[c].cached.set
            /\ priceHistoryCache'[key] # priceHistoryCache[key])
             => priceHistoryCache'[key].timestamp <= mcalls[c].cached.timestamp
    ]_vars

(* Properties of the catch block of analyzeSentiment *)

\* the request of caller c fails in this step
ClassificationFails(c) ==
  /\ scalls[c].pc = "await"
  /\ scalls'[c].pc \in {"resolved", "rejected"}
  /\ scalls'[c].path # "fresh"

\* the request of caller c ends with a 200 response in this step
ClassificationSucceeds(c) ==
  /\ scalls[c].pc = "await"
  /\ scalls'[c].pc = "resolved"
  /\ scalls'[c].path = "fresh"

\* C26: a call of analyzeSentiment whose classification request fails resolves
\* with the sentiment of the cache entry of its text when there is one, expired
\* or not, and with NEUTRAL when there is none, and the step leaves the
\* sentiment cache unchanged; the sentiment cache changes only in a step in
\* which a classification request succeeds, and then only at the text of that
\* call.
C26_FailureUsesCachedOrNeutral ==
  [][/\ \A c \in SCallers :
          ClassificationFails(c) =>
            /\ scalls'[c].pc = "resolved"
            /\ sentimentCache[scalls[c].text].set
                  => scalls'[c].content = sentimentCache[scalls[c].text].sentiment
            /\ ~sentimentCache[scalls[c].text].set => scalls'[c].content = "NEUTRAL"
            /\ sentimentCache' = sentimentCache
      /\ \A t \in AllTexts :
          sentimentCache'[t] # sentimentCache[t] =>
            \E d \in SCallers : ClassificationSucceeds(d) /\ scalls[d].text = t
     ]_vars

\* a failed call has resolved with the sentiment of an expired entry, which
\* differs from NEUTRAL
C26_Witness ==
  \E c \in SCallers :
    /\ scalls[c].pc = "resolved" /\ scalls[c].path = "fallback"
    /\ sentimentCache[scalls[c].text].set
    /\ now - sentimentCache[scalls[c].text].timestamp >= SENTIMENT_CACHE_DURATION
    /\ scalls[c].content = sentimentCache[scalls[c].text].sentiment
    /\ scalls[c].content # "NEUTRAL"

====
